---- MODULE Spec2Model ----
(***************************************************************************)
(* Local optimisation passes of the cornel compiler over one basic block   *)
(* of Bril instructions:                                                   *)
(*   crates/dce : single_pass_dce, multi_pass_dce                          *)
(*   crates/lvn : local_value_numbering                                    *)
(*   crates/bril: Instruction, Operation, Instruction::is_valid            *)
(*                                                                         *)
(* An Option<T> is a sequence of length 0 (None) or 1 (Some).  A           *)
(* HashMap<K, bool> whose values are always true and a HashSet<K> are sets *)
(* of keys.  Vector indices are 0-based as in the source; TLA+ sequences   *)
(* are 1-based, so element k of a Vec is seq[k + 1].                       *)
(***************************************************************************)
EXTENDS Integers, Sequences, FiniteSets, TLC

VARIABLES
    input,      \* the block the caller passed in (lvn: its instructions read so far)
    block,      \* `block`: multi_pass_dce's loop variable / lvn's block under rewrite
    instr_len,  \* multi_pass_dce: `instr_len`
    passes,     \* number of single_pass_dce calls made by the running multi_pass_dce
    before,     \* the block the latest single_pass_dce call was given (Option<Block>)
    run,        \* 1: multi_pass_dce(B) is running, 2: multi_pass_dce of its result
    first,      \* result of the first multi_pass_dce call (Option<Block>)
    pc,         \* control position
    var2num,    \* lvn: HashMap<String, usize>
    num2var,    \* lvn: Vec<String>
    lvn,        \* lvn: HashMap<(Operation, Vec<usize>), (String, usize)>
    num,        \* lvn: `num`
    args_num    \* lvn: the numbers each scanned instruction's arguments resolved to

vars == <<input, block, instr_len, passes, before, run, first, pc,
          var2num, num2var, lvn, num, args_num>>

dceVars == <<instr_len, passes, before, run, first>>
lvnVars == <<var2num, num2var, lvn, num, args_num>>

(***************************************************************************)
(* Bounds of the model.                                                    *)
(***************************************************************************)
MaxDceLen == 4
MaxLvnLen == 4

(***************************************************************************)
(* bril::types                                                             *)
(***************************************************************************)
None == <<>>

Some(x) == <<x>>

is_some(o) == Len(o) = 1

is_none(o) == Len(o) = 0

\* `Option<String>::unwrap_or_default()`: the empty string for None.
unwrap_or_default(o) == IF is_some(o) THEN o[1] ELSE ""

Instruction(op, args, value, dest) ==
    [op |-> op, args |-> args, type |-> None, value |-> value, dest |-> dest]

MkConst(d, v) == Instruction("Const", <<>>, Some(v), Some(d))

MkAdd(d, x, y) == Instruction("Add", <<x, y>>, None, Some(d))

MkMul(d, x, y) == Instruction("Mul", <<x, y>>, None, Some(d))

MkId(d, x) == Instruction("Id", <<x>>, None, Some(d))

MkPrint(x) == Instruction("Print", <<x>>, None, None)

MkBr(c, x, y) == Instruction("Br", <<c, x, y>>, None, None)

MkJmp == Instruction("Jmp", <<>>, None, None)

is_valid(i) ==
    LET count_args == Len(i.args)
        no_args == count_args = 0
        one_args == count_args = 1
        two_args == count_args = 2
        three_args == count_args = 3
    IN  CASE i.op = "Const" ->
               is_some(i.value) /\ is_some(i.dest) /\ is_none(i.type) /\ no_args
          [] i.op \in {"Add", "Mul"} ->
               is_some(i.dest) /\ is_none(i.value) /\ is_none(i.type) /\ two_args
          [] i.op = "Id" ->
               is_some(i.dest) /\ is_none(i.value) /\ is_none(i.type) /\ one_args
          [] i.op = "Print" ->
               is_none(i.value) /\ is_none(i.type) /\ is_none(i.dest) /\ one_args
          [] i.op = "Br" ->
               is_none(i.type) /\ is_none(i.value) /\ is_none(i.dest) /\ three_args
          [] i.op = "Jmp" ->
               is_none(i.value) /\ is_none(i.type) /\ is_none(i.dest)
          [] OTHER -> FALSE

Range(s) == {s[k] : k \in 1..Len(s)}

(***************************************************************************)
(* crates/dce: single_pass_dce                                             *)
(***************************************************************************)
\* The four collections before the scan.
DceInit == [used |-> {}, created |-> {}, remove |-> {}, prev_index |-> <<>>]

\* `prev_index.get(&dest).copied().unwrap_or_default()`
PrevIndexOf(prev_index, dest) ==
    IF dest \in DOMAIN prev_index THEN prev_index[dest] ELSE 0

\* One iteration of the enumerate loop: instruction `instr` at 0-based `index`.
\* `&&` short-circuits: `created.insert(dest)` runs only when `used` lacks
\* `dest`, and returns false when `dest` was already in `created`.
DceScanStep(st, index, instr) ==
    LET dest == unwrap_or_default(instr.dest)
        unusedDest == dest \notin st.used
        register == unusedDest /\ dest \in st.created
        created1 == IF unusedDest THEN st.created \cup {dest} ELSE st.created
        remove1 == IF register
                     THEN st.remove \cup {PrevIndexOf(st.prev_index, dest)}
                     ELSE st.remove
        created2 == IF is_some(instr.dest)
                      THEN created1 \cup {instr.dest[1]} ELSE created1
        prev2 == IF is_some(instr.dest)
                   THEN (instr.dest[1] :> index) @@ st.prev_index
                   ELSE st.prev_index
        used2 == IF is_some(instr.dest)
                   THEN st.used \ {instr.dest[1]} ELSE st.used
    IN  [used |-> used2 \cup Range(instr.args),
         created |-> created2,
         remove |-> remove1,
         prev_index |-> prev2]

\* The collections after the first k instructions of blk were scanned.
RECURSIVE DceScan(_, _)
DceScan(blk, k) ==
    IF k = 0 THEN DceInit
    ELSE DceScanStep(DceScan(blk, k - 1), k - 1, blk[k])

\* The closure given to `retain`, for the instruction at 0-based `index`.
Retained(st, index, i) ==
    /\ ~(is_some(i.dest) /\ i.dest[1] \notin st.used)
    /\ index \notin st.remove

\* 0-based indices of the instructions `retain` keeps.
Kept(blk) ==
    LET st == DceScan(blk, Len(blk))
    IN  {k \in 0..(Len(blk) - 1) : Retained(st, k, blk[k + 1])}

\* The subsequence of blk at the 0-based indices in keep, in order.
RECURSIVE Select(_, _, _)
Select(blk, keep, k) ==
    IF k = 0 THEN <<>>
    ELSE IF (k - 1) \in keep
           THEN Append(Select(blk, keep, k - 1), blk[k])
           ELSE Select(blk, keep, k - 1)

single_pass_dce(blk) == Select(blk, Kept(blk), Len(blk))

(***************************************************************************)
(* crates/dce: multi_pass_dce                                              *)
(***************************************************************************)
\* Mutant: the loop body runs once, as an `if` instead of the `while`.
LoopCondOnce(len, blk) == len = 0 /\ Len(blk) /= 0

\* Mutant: the loop runs until the block is empty.
LoopCondNonEmpty(len, blk) == Len(blk) /= 0

\* `while instr_len != block.len()`
LoopCond(len, blk) == len /= Len(blk)

(***************************************************************************)
(* Blocks handed to the DCE passes: every sequence of at most MaxDceLen    *)
(* instructions over two variables, with and without destinations,         *)
(* reading none, one or two variables.                                     *)
(***************************************************************************)
DceInstrs ==
    {MkConst("a", 1), MkConst("a", 2), MkConst("b", 2),
     MkId("b", "a"), MkId("a", "b"), MkAdd("a", "a", "b"),
     MkPrint("a"), MkPrint("b"), MkJmp, MkBr("a", "b", "a")}

SeqsUpTo(S, n) == UNION {[1..k -> S] : k \in 0..n}

DceBlocks == SeqsUpTo(DceInstrs, MaxDceLen)

InitDce ==
    /\ input \in DceBlocks
    /\ block = input
    /\ instr_len = 0
    /\ passes = 0
    /\ before = None
    /\ run = 1
    /\ first = None
    /\ pc = "loop"
    /\ var2num = <<>>
    /\ num2var = <<>>
    /\ lvn = <<>>
    /\ num = 0
    /\ args_num = <<>>

\* One iteration of the while loop.
DcePass ==
    /\ pc = "loop"
    /\ LoopCond(instr_len, block)
    /\ instr_len' = Len(block)
    /\ block' = single_pass_dce(block)
    /\ passes' = passes + 1
    /\ before' = Some(block)
    /\ UNCHANGED <<input, run, first, pc>>
    /\ UNCHANGED lvnVars

\* The loop condition fails: multi_pass_dce returns `block`.
DceReturn ==
    /\ pc = "loop"
    /\ ~LoopCond(instr_len, block)
    /\ pc' = "returned"
    /\ UNCHANGED <<input, block, instr_len, passes, before, run, first>>
    /\ UNCHANGED lvnVars

\* The caller applies multi_pass_dce to the block the first call returned.
DceAgain ==
    /\ pc = "returned"
    /\ run = 1
    /\ first' = Some(block)
    /\ run' = 2
    /\ instr_len' = 0
    /\ passes' = 0
    /\ pc' = "loop"
    /\ UNCHANGED <<input, block, before>>
    /\ UNCHANGED lvnVars

NextDce == DcePass \/ DceReturn \/ DceAgain

SpecDce == InitDce /\ [][NextDce]_vars

(***************************************************************************)
(* crates/lvn: local_value_numbering                                       *)
(***************************************************************************)
\* `args.sort()` on a Vec<usize>: insertion into an ascending sequence.
RECURSIVE InsertSorted(_, _)
InsertSorted(s, x) ==
    IF s = <<>> THEN <<x>>
    ELSE IF x <= Head(s) THEN <<x>> \o s
    ELSE <<Head(s)>> \o InsertSorted(Tail(s), x)

RECURSIVE SortAsc(_)
SortAsc(s) == IF s = <<>> THEN <<>> ELSE InsertSorted(SortAsc(Tail(s)), Head(s))

\* Mutant: the key keeps the operands in their written order.
ExprKeyUnsorted(op, nums, value_arr) == <<op, nums \o value_arr>>

\* `expression`: the operation with the sorted numbers of the arguments and
\* of the literal value, if any.
ExprKey(op, nums, value_arr) == <<op, SortAsc(nums \o value_arr)>>

\* `HashMap::insert`
Insert(map, key, val) == (key :> val) @@ map

\* `args.iter().map(|a| var2num.get(a))`: defined when every name is bound.
Resolves(v2n, args) == \A k \in 1..Len(args) : args[k] \in DOMAIN v2n

Resolve(v2n, args) == [k \in 1..Len(args) |-> v2n[args[k]]]

\* The error the `?` operators of the Id case return, in source order.
IdError(i, v2n) ==
    IF Len(i.args) = 0 THEN "missing argument for Id"
    ELSE IF i.args[1] \notin DOMAIN v2n THEN "missing a in var2num"
    ELSE IF is_none(i.dest) THEN "missing destination for Id"
    ELSE "none"

\* Mutant: the number is bound to the argument instead of the destination.
IdBindArg(v2n, i, n) == Insert(v2n, i.args[1], n)

\* `var2num.insert(i.dest.clone()?, num)` of the Id case.
IdBind(v2n, i, n) == Insert(v2n, i.dest[1], n)

\* Mutant: the copy keeps the argument it was written with.
IdRewriteKeep(i, n2v, n) == i

\* The rewrite of an Id instruction whose argument holds number n.
IdRewrite(i, n2v, n) == [i EXCEPT !.args = <<n2v[n + 1]>>]

\* The rewrite of an instruction with a new expression.
VacantRewrite(i, n2v, nums) ==
    [i EXCEPT !.args = [k \in 1..Len(nums) |-> n2v[nums[k] + 1]]]

\* The rewrite of an instruction whose expression `var` already holds.
OccupiedRewrite(i, var) == [i EXCEPT !.op = "Id", !.args = <<var>>]

(***************************************************************************)
(* Instructions the caller's block is made of.  The scan reads instruction *)
(* k of the block in iteration k only, so the model fixes instruction k    *)
(* when the iterator yields it; the block ends where the iterator does.    *)
(* The last two instructions are copies that fail is_valid.                *)
(***************************************************************************)
LvnInstrs ==
    {MkConst("a", 1), MkConst("a", 2), MkConst("b", 1), MkConst("b", 2),
     MkAdd("c", "a", "b"), MkAdd("c", "b", "a"), MkAdd("c", "a", "a"),
     MkAdd("a", "a", "b"), MkAdd("a", "b", "a"), MkAdd("b", "a", "a"),
     MkMul("c", "a", "b"), MkMul("a", "b", "a"),
     MkId("b", "a"), MkId("c", "b"), MkId("a", "c"),
     MkPrint("a"), MkPrint("b"), MkPrint("c"), MkPrint(""),
     MkJmp, MkBr("a", "b", "c"),
     Instruction("Id", <<>>, None, Some("a")),
     Instruction("Id", <<"a">>, None, None)}

InitLvn ==
    /\ input = <<>>
    /\ block = <<>>
    /\ var2num = <<>>
    /\ num2var = <<>>
    /\ lvn = <<>>
    /\ num = 0
    /\ args_num = <<>>
    /\ pc = "scan"
    /\ instr_len = 0
    /\ passes = 0
    /\ before = None
    /\ run = 1
    /\ first = None

\* The iterator yields instruction i.
Yields(i) ==
    /\ pc = "scan"
    /\ Len(input) < MaxLvnLen
    /\ i \in LvnInstrs
    /\ input' = Append(input, i)

\* A copy whose argument is bound.
LvnId ==
    \E i \in LvnInstrs :
        /\ Yields(i)
        /\ i.op = "Id"
        /\ IdError(i, var2num) = "none"
        /\ LET n == var2num[i.args[1]]
           IN  /\ var2num' = IdBind(var2num, i, n)
               /\ block' = Append(block, IdRewrite(i, num2var, n))
               /\ args_num' = Append(args_num, <<n>>)
        /\ UNCHANGED <<num2var, lvn, num, pc>>
        /\ UNCHANGED dceVars

\* A copy without argument, with an unbound argument or without destination:
\* the `?` returns the error and the block is dropped.
LvnIdErr ==
    \E i \in LvnInstrs :
        /\ Yields(i)
        /\ i.op = "Id"
        /\ IdError(i, var2num) /= "none"
        /\ pc' = "err"
        /\ block' = <<>>
        /\ UNCHANGED lvnVars
        /\ UNCHANGED dceVars

\* Another instruction with an unbound argument.
LvnErr ==
    \E i \in LvnInstrs :
        /\ Yields(i)
        /\ i.op /= "Id"
        /\ ~Resolves(var2num, i.args)
        /\ pc' = "err"
        /\ block' = <<>>
        /\ UNCHANGED lvnVars
        /\ UNCHANGED dceVars

\* Another instruction whose expression is new: Entry::Vacant.
LvnVacant ==
    \E i \in LvnInstrs :
        /\ Yields(i)
        /\ i.op /= "Id"
        /\ Resolves(var2num, i.args)
        /\ LET nums == Resolve(var2num, i.args)
               expression == ExprKey(i.op, nums, i.value)
               dest == unwrap_or_default(i.dest)
           IN  /\ expression \notin DOMAIN lvn
               /\ var2num' = Insert(var2num, dest, num)
               /\ num2var' = Append(num2var, dest)
               /\ lvn' = Insert(lvn, expression, <<dest, num>>)
               /\ block' = Append(block, VacantRewrite(i, num2var', nums))
               /\ num' = num + 1
               /\ args_num' = Append(args_num, nums)
        /\ UNCHANGED pc
        /\ UNCHANGED dceVars

\* Another instruction whose expression was seen: Entry::Occupied.
LvnOccupied ==
    \E i \in LvnInstrs :
        /\ Yields(i)
        /\ i.op /= "Id"
        /\ Resolves(var2num, i.args)
        /\ LET nums == Resolve(var2num, i.args)
               expression == ExprKey(i.op, nums, i.value)
               dest == unwrap_or_default(i.dest)
           IN  /\ expression \in DOMAIN lvn
               /\ var2num' = Insert(var2num, dest, lvn[expression][2])
               /\ block' = Append(block, OccupiedRewrite(i, lvn[expression][1]))
               /\ args_num' = Append(args_num, nums)
        /\ UNCHANGED <<num2var, lvn, num, pc>>
        /\ UNCHANGED dceVars

\* The iterator is exhausted: Ok(block).
LvnReturn ==
    /\ pc = "scan"
    /\ pc' = "ok"
    /\ UNCHANGED <<input, block>>
    /\ UNCHANGED lvnVars
    /\ UNCHANGED dceVars

NextLvn == LvnId \/ LvnIdErr \/ LvnErr \/ LvnVacant \/ LvnOccupied \/ LvnReturn

SpecLvn == InitLvn /\ [][NextLvn]_vars

(***************************************************************************)
(* Liveness of a definition, as the specification defines it: the          *)
(* instruction at 0-based index k of blk defines d, and some later         *)
(* instruction reads d with no redefinition of d strictly in between.      *)
(***************************************************************************)
Reads(blk, m, d) == d \in Range(blk[m + 1].args)

Defines(blk, m, d) == blk[m + 1].dest = Some(d)

ReadersOf(blk, k) ==
    {m \in (k + 1)..(Len(blk) - 1) :
        /\ Reads(blk, m, blk[k + 1].dest[1])
        /\ \A n \in (k + 1)..(m - 1) : ~Defines(blk, n, blk[k + 1].dest[1])}

LiveAt(blk, k) == is_some(blk[k + 1].dest) /\ ReadersOf(blk, k) /= {}

Dropped(blk) == (0..(Len(blk) - 1)) \ Kept(blk)

\* C2: single_pass_dce removes only dead definitions: every instruction that
\* the latest pass dropped from the block it was given has a destination
\* that no later instruction reads before the destination is redefined.
C2_OnlyDeadRemoved ==
    is_some(before) =>
        /\ block = Select(before[1], Kept(before[1]), Len(before[1]))
        /\ \A k \in Dropped(before[1]) :
              is_some(before[1][k + 1].dest) /\ ~LiveAt(before[1], k)

\* C3: every instruction without a destination survives single_pass_dce,
\* whatever the number and position of such instructions in the block: the
\* latest pass dropped none and returned as many of them as it was given.
C3_NoDestKept ==
    is_some(before) =>
        /\ \A k \in Dropped(before[1]) : is_some(before[1][k + 1].dest)
        /\ Len(SelectSeq(block, LAMBDA i : is_none(i.dest)))
              = Len(SelectSeq(before[1], LAMBDA i : is_none(i.dest)))

\* C8: multi_pass_dce is idempotent: applied to the block a first call
\* returned, it returns that block unchanged.
C8_Idempotent ==
    (run = 2 /\ pc = "returned") => block = first[1]

\* C8 witness: the second call returned, and the first call had removed
\* some but not all instructions of a block that reassigns a variable.
C8_Witness ==
    /\ run = 2
    /\ pc = "returned"
    /\ 0 < Len(block)
    /\ Len(block) < Len(input)
    /\ \E i, j \in 1..Len(input) :
          i < j /\ is_some(input[i].dest) /\ input[i].dest = input[j].dest

\* Pairs i < j where instruction i defines d, instruction j redefines d, and
\* no instruction after i up to and including j reads d.
Overwritten(blk) ==
    {p \in (0..(Len(blk) - 1)) \X (0..(Len(blk) - 1)) :
        /\ p[1] < p[2]
        /\ is_some(blk[p[1] + 1].dest)
        /\ blk[p[1] + 1].dest = blk[p[2] + 1].dest
        /\ \A m \in (p[1] + 1)..p[2] : ~Reads(blk, m, blk[p[1] + 1].dest[1])}

\* C9: a definition overwritten before being read is removed by
\* single_pass_dce, while the redefinition, when it is read afterwards, is
\* kept together with its readers (those without a destination, and those
\* whose own result is read).
C9_ReassignmentPruned ==
    is_some(before) =>
        \A p \in Overwritten(before[1]) :
            /\ p[1] \in Dropped(before[1])
            /\ LiveAt(before[1], p[2]) =>
                  /\ p[2] \in Kept(before[1])
                  /\ \A m \in ReadersOf(before[1], p[2]) :
                        (is_none(before[1][m + 1].dest) \/ LiveAt(before[1], m))
                            => m \in Kept(before[1])

\* The block the running multi_pass_dce call was given.
CallArg == IF run = 1 THEN input ELSE first[1]

\* C10: multi_pass_dce terminates: the block never grows, every iteration
\* shrinks the block or is the last one, at most length(B)+1 single passes
\* run, and the returned block is a fixed point of single_pass_dce.
C10_Terminates ==
    /\ [][/\ Len(block') <= Len(block)
          /\ passes' = passes + 1 =>
                (Len(block') < Len(block) \/ ~LoopCond(instr_len', block'))]_vars
    /\ [](/\ passes <= Len(CallArg) + 1
          /\ pc = "returned" => single_pass_dce(block) = block)

\* C10 witness: a call returned after three single passes, the last of
\* which removed nothing.
C10_Witness ==
    /\ pc = "returned"
    /\ passes = 3
    /\ Len(block) < Len(CallArg)
    /\ single_pass_dce(block) = block

\* C11: no dead definition survives multi_pass_dce: in the block it returns,
\* every instruction with a destination d is followed by an instruction
\* that reads d before d is redefined.
C11_NoDeadSurvives ==
    pc = "returned" =>
        \A k \in 0..(Len(block) - 1) :
            is_some(block[k + 1].dest) => LiveAt(block, k)

(***************************************************************************)
(* Claims about local_value_numbering.                                     *)
(***************************************************************************)
\* Every argument of every instruction of blk is the destination of an
\* earlier instruction of blk.
DefinedBefore(blk, k) == {blk[m].dest[1] : m \in {m \in 1..(k - 1) : is_some(blk[m].dest)}}

NoUseBeforeDef(blk) ==
    \A k \in 1..Len(blk) : Range(blk[k].args) \subseteq DefinedBefore(blk, k)

AllValid(blk) == \A k \in 1..Len(blk) : is_valid(blk[k])

\* The value a name holds; Undef when nothing was assigned to it.
Undef == 0 - 1

Lookup(env, x) == IF x \in DOMAIN env THEN env[x] ELSE Undef

\* One instruction executed on the state [env, out]: Const, Add, Mul and Id
\* are pure assignments to the destination, Print appends the value of its
\* argument to the output; anything else does nothing.  The values of the
\* blocks scanned here stay far below the width of a u32.
ExecStep(st, i) ==
    LET arg(k) == IF k <= Len(i.args) THEN Lookup(st.env, i.args[k]) ELSE Undef
        val == CASE i.op = "Const" -> IF is_some(i.value) THEN i.value[1] ELSE Undef
                 [] i.op = "Add" ->
                      IF arg(1) = Undef \/ arg(2) = Undef THEN Undef
                      ELSE arg(1) + arg(2)
                 [] i.op = "Mul" ->
                      IF arg(1) = Undef \/ arg(2) = Undef THEN Undef
                      ELSE arg(1) * arg(2)
                 [] i.op = "Id" -> arg(1)
                 [] OTHER -> Undef
    IN  IF i.op = "Print" THEN [st EXCEPT !.out = Append(st.out, arg(1))]
        ELSE IF i.op \in {"Const", "Add", "Mul", "Id"} /\ is_some(i.dest)
               THEN [st EXCEPT !.env = (i.dest[1] :> val) @@ st.env]
        ELSE st

RECURSIVE Exec(_, _)
Exec(blk, k) ==
    IF k = 0 THEN [env |-> <<>>, out |-> <<>>]
    ELSE ExecStep(Exec(blk, k - 1), blk[k])

\* The sequence of values blk prints.
Printed(blk) == Exec(blk, Len(blk)).out

\* C1: when local_value_numbering returns Ok(B') for a block B of valid
\* Const/Add/Mul/Id/Print instructions whose arguments are all defined
\* earlier in B, B' prints the same sequence of values as B.
C1_SemanticallyEquivalent ==
    (/\ pc = "ok"
     /\ AllValid(input)
     /\ NoUseBeforeDef(input)
     /\ \A k \in 1..Len(input) :
           input[k].op \in {"Const", "Add", "Mul", "Id", "Print"})
        => Printed(block) = Printed(input)

\* C4: local_value_numbering returns an error and no block whenever an
\* instruction has an argument that no earlier instruction defined: the
\* scan does not get past such an instruction.
C4_UseBeforeDefFails ==
    /\ ~NoUseBeforeDef(input) => pc = "err"
    /\ pc = "err" => block = <<>>

\* C5: on a block of valid instructions without use before definition,
\* local_value_numbering does not fail and its output has as many
\* instructions as its input.
C5_LengthPreserved ==
    (AllValid(input) /\ NoUseBeforeDef(input))
        => (pc /= "err" /\ Len(block) = Len(input))

\* C5 witness: Ok was returned for a valid block of four instructions with
\* a reassigned variable, one of which was rewritten into a copy.
C5_Witness ==
    /\ pc = "ok"
    /\ AllValid(input)
    /\ NoUseBeforeDef(input)
    /\ Len(input) = 4
    /\ \E k \in 1..Len(input) : input[k].op /= "Id" /\ block[k].op = "Id"
    /\ \E i, j \in 1..Len(input) : i < j /\ input[i].dest = input[j].dest

\* Instructions i < j of the scanned block: s1 = op(x, y) and s2 = op(y, x)
\* with op Add or Mul, the operands resolved to the same numbers at both.
Commuted(i, j) ==
    /\ i < j
    /\ input[i].op \in {"Add", "Mul"}
    /\ input[j].op = input[i].op
    /\ is_valid(input[i])
    /\ is_valid(input[j])
    /\ input[j].args = <<input[i].args[2], input[i].args[1]>>
    /\ args_num[j] = <<args_num[i][2], args_num[i][1]>>

\* The expression key the scan formed for instruction k.
KeyAt(k) == ExprKey(input[k].op, args_num[k], input[k].value)

\* No instruction before k has the expression key of instruction k.
FirstWithKey(k) ==
    \A m \in 1..(k - 1) : input[m].op = "Id" \/ KeyAt(m) /= KeyAt(k)

\* C6 as stated: the later of two commuted instructions becomes s2 = id(s1)
\* and the earlier one keeps its operation.
C6_CommutedBecomesCopyOfFirst ==
    \A i, j \in 1..Len(block) :
        Commuted(i, j) =>
            /\ block[j].op = "Id"
            /\ block[j].args = <<input[i].dest[1]>>
            /\ block[i].op = input[i].op

\* C6 amended: both instructions get the same expression key; when s1 is
\* the first instruction of the block with that key, s1 keeps its operation
\* and s2 becomes id(s1); otherwise both become copies of the destination of
\* the first instruction with that key.
C6_CommutedBecomesCopy ==
    \A i, j \in 1..Len(block) :
        Commuted(i, j) =>
            /\ KeyAt(i) = KeyAt(j)
            /\ block[j].op = "Id"
            /\ FirstWithKey(i) =>
                  /\ block[j].args = <<input[i].dest[1]>>
                  /\ block[i].op = input[i].op
            /\ ~FirstWithKey(i) =>
                  /\ block[i].op = "Id"
                  /\ block[j].args = block[i].args
                  /\ \E m \in 1..(i - 1) :
                        /\ input[m].op /= "Id"
                        /\ FirstWithKey(m)
                        /\ KeyAt(m) = KeyAt(i)
                        /\ block[i].args = <<unwrap_or_default(input[m].dest)>>

\* C6 witness: s1 = op(x, y) with x /= y is the first instruction with its
\* key and a later s2 = op(y, x), s2 /= s1, was rewritten.
C6_Witness ==
    \E i, j \in 1..Len(block) :
        /\ Commuted(i, j)
        /\ FirstWithKey(i)
        /\ input[i].args[1] /= input[i].args[2]
        /\ args_num[i][1] /= args_num[i][2]
        /\ input[i].dest /= input[j].dest
        /\ block[j] = MkId(input[j].dest[1], input[i].dest[1])

\* Instructions i .. i+k of the scanned block form a copy chain: i is a
\* definition other than a copy whose expression key was new, and each of
\* the next k instructions copies the destination of the one before it.
CopyChain(i, k) ==
    /\ k >= 1
    /\ i + k <= Len(block)
    /\ input[i].op /= "Id"
    /\ is_some(input[i].dest)
    /\ FirstWithKey(i)
    /\ \A m \in 1..k :
          /\ is_valid(input[i + m])
          /\ input[i + m].op = "Id"
          /\ input[i + m].args = input[i + m - 1].dest

\* Instruction r, after the chain i .. i+k, reads the last copy of the chain
\* in argument position q before that name is redefined.
ReadsChainEnd(i, k, r, q) ==
    /\ i + k < r
    /\ r <= Len(block)
    /\ q \in 1..Len(input[r].args)
    /\ input[r].args[q] = input[i + k].dest[1]
    /\ \A m \in (i + k + 1)..(r - 1) : input[m].dest /= input[i + k].dest

ChainPairs == {p \in (1..Len(block)) \X (1..Len(block)) : CopyChain(p[1], p[2])}

\* Every copy of a chain reads the head x of the chain after the pass.
ChainCollapsed(i, k) ==
    \A m \in 1..k : block[i + m].args = <<input[i].dest[1]>>

BecameCopy(r) == input[r].op /= "Id" /\ block[r].op = "Id"

ScannedNoDest ==
    /\ Len(input') = Len(input) + 1
    /\ is_none(input'[Len(input')].dest)
    /\ pc' = "scan"

\* C12: for an instruction without a destination the scan only rewrites the
\* arguments to the canonical names of their numbers: the operation and the
\* argument count stay, and var2num, num2var, lvn and num are the same after
\* the instruction as before it.
C12_NoDestFrame ==
    [][ScannedNoDest =>
          LET i == input'[Len(input')]
              o == block'[Len(block')]
          IN  /\ o.op = i.op
              /\ Len(o.args) = Len(i.args)
              /\ \A k \in 1..Len(i.args) :
                    o.args[k] = num2var[var2num[i.args[k]] + 1]
              /\ var2num' = var2num
              /\ num2var' = num2var
              /\ lvn' = lvn
              /\ num' = num]_vars

\* C13: an instruction whose expression key already existed (a repeated
\* Const with the same literal, a repeated Add or Mul) is rewritten to a
\* valid Id instruction: operation Id, the canonical name of the existing
\* number as only argument, the same destination and no value.
C13_RedundantBecomesValidId ==
    \A r \in 1..Len(block) :
        (/\ input[r].op \in {"Const", "Add", "Mul"}
         /\ is_valid(input[r])
         /\ ~FirstWithKey(r))
            => /\ block[r].op = "Id"
               /\ block[r].args = <<num2var[lvn[KeyAt(r)][2] + 1]>>
               /\ block[r].dest = input[r].dest
               /\ is_none(block[r].value)
               /\ is_valid(block[r])

====
